---- MODULE Spec2Model ----
(***************************************************************************)
(* kas_alias: post-processor of an `nm -n` listing that adds an alias      *)
(* record next to every symbol whose name is duplicated.                   *)
(*                                                                         *)
(* Two revisions of the tool are modelled:                                 *)
(*   - the hash-indexed revision, src/kas_alias.c with the struct heads    *)
(*     store of src/item_list.c:232-437 and the addr2line bridge of        *)
(*     src/unnamed/part_007:251-522 (actions prefixed K_);                 *)
(*   - the sort-based revision, src/unnamed/part_000 with the list of      *)
(*     src/item_list.c:1-230 and find_duplicates of                        *)
(*     src/duplicates_list.c:101-151 (actions prefixed S_).                *)
(*                                                                         *)
(* Strings are sequences of byte values (ASCII codes), without the         *)
(* terminating NUL; C buffers are sequences of MAX_NAME_SIZE byte values   *)
(* that contain the NUL and whatever follows it.                           *)
(***************************************************************************)
EXTENDS Integers, Sequences, FiniteSets, TLC

(***************************************************************************)
(* Characters and strings                                                  *)
(***************************************************************************)

\* The printable ASCII characters, code 32 (space) first.
AsciiTable ==
  << " ", "!", "<dquote>", "#", "$", "%", "&", "'", "(", ")", "*", "+", ",", "-", ".", "/",
     "0", "1", "2", "3", "4", "5", "6", "7", "8", "9", ":", ";", "<", "=", ">", "?",
     "@", "A", "B", "C", "D", "E", "F", "G", "H", "I", "J", "K", "L", "M", "N", "O",
     "P", "Q", "R", "S", "T", "U", "V", "W", "X", "Y", "Z", "[", "<bslash>", "]", "^", "_",
     "<bquote>", "a", "b", "c", "d", "e", "f", "g", "h", "i", "j", "k", "l", "m", "n", "o",
     "p", "q", "r", "s", "t", "u", "v", "w", "x", "y", "z", "{", "|", "}", "~" >>

\* The byte value of every character of the table.
OrdOf ==
  [c \in {AsciiTable[i] : i \in 1..Len(AsciiTable)} |->
     31 + CHOOSE i \in 1..Len(AsciiTable) : AsciiTable[i] = c]

\* Byte value of a character.
Ord(c) == OrdOf[c]

\* A string literal, written as a tuple of characters, as byte values.
Str(cs) == [i \in 1..Len(cs) |-> Ord(cs[i])]

\* isalnum(3) in the C locale.
isalnum(b) ==
  \/ b \in Ord("0")..Ord("9")
  \/ b \in Ord("A")..Ord("Z")
  \/ b \in Ord("a")..Ord("z")

isdigit(b) == b \in Ord("0")..Ord("9")

\* isxdigit(3): the digits strtoul accepts in base 16.
isxdigit(b) ==
  \/ b \in Ord("0")..Ord("9")
  \/ b \in Ord("A")..Ord("F")
  \/ b \in Ord("a")..Ord("f")

\* The last of the values a sequence of assignments computes, listed in
\* program order.
Last(values) == values[Len(values)]

\* Number of bytes of s from position i on that belong to set, up to the
\* first that does not.
RunLength(s, i, set) ==
  LET stop == {j \in i..Len(s) : s[j] \notin set}
  IN  IF stop = {} THEN Len(s) + 1 - i
      ELSE (CHOOSE j \in stop : \A m \in stop : j <= m) - i

\* The byte at position i of a C string, the terminating NUL included.
ByteAt(s, i) == IF i <= Len(s) THEN s[i] ELSE 0

\* strcmp(3): the difference of the bytes at the first position where the
\* two strings differ (byte-wise, unsigned), zero when there is none.
strcmp(a, b) ==
  LET last == IF Len(a) < Len(b) THEN Len(a) + 1 ELSE Len(b) + 1
      diff == {i \in 1..last : ByteAt(a, i) # ByteAt(b, i)}
  IN  IF diff = {} THEN 0
      ELSE LET i == CHOOSE d \in diff : \A e \in diff : d <= e
           IN  ByteAt(a, i) - ByteAt(b, i)

\* strstr(3) # NULL: needle occurs in hay.
strstr(hay, needle) ==
  \E i \in 1..(Len(hay) - Len(needle) + 1) :
     SubSeq(hay, i, i + Len(needle) - 1) = needle

\* Position of the first occurrence of needle in hay (0 if none).
StrPos(hay, needle) ==
  IF strstr(hay, needle)
  THEN CHOOSE i \in 1..(Len(hay) - Len(needle) + 1) :
         /\ SubSeq(hay, i, i + Len(needle) - 1) = needle
         /\ \A j \in 1..(i - 1) : SubSeq(hay, j, j + Len(needle) - 1) # needle
  ELSE 0

\* strlen(3) of a buffer: number of bytes before the first NUL.
strlen(buf) ==
  IF \E i \in 1..Len(buf) : buf[i] = 0
  THEN (CHOOSE i \in 1..Len(buf) : buf[i] = 0 /\ \A j \in 1..(i - 1) : buf[j] # 0) - 1
  ELSE Len(buf)

\* The C string held by a buffer.
CStr(buf) == SubSeq(buf, 1, strlen(buf))

MAX_NAME_SIZE == 256

\* strncpy(dst, s, MAX_NAME_SIZE) into a fresh buffer: the string, then NUL
\* padding up to MAX_NAME_SIZE bytes (no NUL at all when the string is longer).
strncpy(s) ==
  [i \in 1..MAX_NAME_SIZE |-> IF i <= Len(s) THEN s[i] ELSE 0]

(***************************************************************************)
(* 32-bit unsigned arithmetic.  A uint32_t is a pair <<hi, lo>> of 16-bit  *)
(* halves, so that no intermediate value reaches 2^31.                     *)
(***************************************************************************)

Half == 65536

\* Bitwise exclusive or of two naturals, bit by bit.
RECURSIVE XorBits(_, _)
XorBits(a, b) ==
  IF a = 0 THEN b
  ELSE IF b = 0 THEN a
  ELSE (((a % 2) + (b % 2)) % 2) + 2 * XorBits(a \div 2, b \div 2)

\* The exclusive or of two 4-bit values, as a table.
Xor4 == [a \in 0..15 |-> [b \in 0..15 |-> XorBits(a, b)]]

\* Bitwise exclusive or of two 16-bit values, four bits at a time.
BitXor(a, b) ==
  Xor4[a % 16][b % 16]
    + 16 * Xor4[(a \div 16) % 16][(b \div 16) % 16]
    + 256 * Xor4[(a \div 256) % 16][(b \div 256) % 16]
    + 4096 * Xor4[a \div 4096][b \div 4096]

\* a ^ b on uint32_t.
Xor32(a, b) == << BitXor(a[1], b[1]), BitXor(a[2], b[2]) >>

\* (x * y) mod 2^16 for 16-bit x, y.
MulLo16(x, y) == ((x % 256) * y + (((x \div 256) * y) % 256) * 256) % Half

\* x * y as <<high 16 bits, low 16 bits>> for 16-bit x, y.
Mul16(x, y) ==
  LET p0 == (x % 256) * y
      p1 == (x \div 256) * y
      s  == p0 + (p1 % 256) * 256
  IN  << ((s \div Half) + (p1 \div 256)) % Half, s % Half >>

\* a * b on uint32_t (wraps modulo 2^32).
Mul32(a, b) ==
  LET ll == Mul16(a[2], b[2])
  IN  << (ll[1] + MulLo16(a[1], b[2]) + MulLo16(a[2], b[1])) % Half, ll[2] >>

\* a + b on uint32_t (wraps modulo 2^32).
Add32(a, b) ==
  LET lo == a[2] + b[2]
  IN  << (a[1] + b[1] + (lo \div Half)) % Half, lo % Half >>

Pow2(n) == IF n = 0 THEN 1 ELSE 2 ^ n

\* ROTL32(x, r), item_list.c:241, for 0 < r < 16.
ROTL32(x, r) ==
  << ((x[1] * Pow2(r)) % Half) + (x[2] \div Pow2(16 - r)),
     ((x[2] * Pow2(r)) % Half) + (x[1] \div Pow2(16 - r)) >>

\* x >> r on uint32_t, for 0 < r <= 16.
Shr32(x, r) ==
  << x[1] \div Pow2(r), ((x[1] % Pow2(r)) * Pow2(16 - r)) + (x[2] \div Pow2(r)) >>

\* The uint32_t with value n, for a natural n < 2^31.
U32(n) == << n \div Half, n % Half >>

HASH_TABLE_SIZE == 16384

\* MURMUR3_SEED 0x55aa9966
MURMUR3_SEED == << 21930, 39270 >>
\* c1 = 0xcc9e2d51, c2 = 0x1b873593
murmur_c1 == << 52382, 11601 >>
murmur_c2 == << 7047, 13715 >>

\* Byte at C offset off (0-based) of a buffer.
At(buf, off) == buf[off + 1]

\* blocks[i] of hash_function: the little-endian 32-bit word at byte offset
\* off of the key buffer.
Word32(buf, off) ==
  << At(buf, off + 2) + 256 * At(buf, off + 3), At(buf, off) + 256 * At(buf, off + 1) >>

\* One body round of hash_function (item_list.c:256-263).
MurmurRound(hash, k) ==
  LET k1 == Mul32(k, murmur_c1)
      k2 == ROTL32(k1, 15)
      k3 == Mul32(k2, murmur_c2)
      h1 == Xor32(hash, k3)
      h2 == ROTL32(h1, 13)
      h3 == Mul32(h2, U32(5))
      h4 == Add32(h3, << 58964, 27492 >>)
  IN  Last(<< k1, k2, k3, h1, h2, h3, h4 >>)

\* The rounds lo .. hi - 1 of the body loop of hash_function, applied to
\* hash in this order (the first half of them, then the second half).
\* blocks points at data + (len / 4) * 4 and is indexed from 0 upwards, so
\* round i reads the word at byte offset (len / 4) * 4 + 4 * i: the bytes
\* that FOLLOW the full blocks of the key, the terminating NUL and what the
\* buffer holds behind it included.
RECURSIVE MurmurBody(_, _, _, _, _)
MurmurBody(buf, nblocks, lo, hi, hash) ==
  IF hi <= lo THEN hash
  ELSE IF hi = lo + 1 THEN MurmurRound(hash, Word32(buf, nblocks * 4 + 4 * lo))
  ELSE LET first  == MurmurBody(buf, nblocks, lo, (lo + hi) \div 2, hash)
            second == MurmurBody(buf, nblocks, (lo + hi) \div 2, hi, first)
       IN  Last(<< first, second >>)

\* The tail switch of hash_function (item_list.c:266-279).
MurmurTail(buf, len, hash) ==
  LET off == 4 * (len \div 4)
      r   == len % 4
      k0  == << IF r = 3 THEN At(buf, off + 2) ELSE 0,
                (IF r >= 2 THEN At(buf, off + 1) * 256 ELSE 0) + At(buf, off) >>
      k1  == Mul32(k0, murmur_c1)
      k2  == ROTL32(k1, 15)
      k3  == Mul32(k2, murmur_c2)
      h1  == Xor32(hash, k3)
  IN  IF r = 0 THEN hash ELSE Last(<< k0, k1, k2, k3, h1 >>)

\* The finalisation of hash_function (item_list.c:281-288).
MurmurFinal(len, hash) ==
  LET h0 == Xor32(hash, U32(len))
      h1 == Xor32(h0, Shr32(h0, 16))
      h2 == Mul32(h1, << 34283, 51819 >>)
      h3 == Xor32(h2, Shr32(h2, 13))
      h4 == Mul32(h3, << 49842, 44597 >>)
      h5 == Xor32(h4, Shr32(h4, 16))
  IN  Last(<< h0, h1, h2, h3, h4, h5 >>)[2] % HASH_TABLE_SIZE

\* hash_function(key), item_list.c:243-289, of the buffer key points to.
hash_function(buf) ==
  LET len == strlen(buf)
      body == MurmurBody(buf, (len \div 4), 0, (len \div 4), MURMUR3_SEED)
      tailed == MurmurTail(buf, len, body)
  IN  MurmurFinal(len, Last(<< body, tailed >>))

(***************************************************************************)
(* POSIX extended regular expressions, the part the filter lists use.      *)
(* A compiled expression is a sequence of atoms: the anchors ^ and $, a    *)
(* literal string, and a set of bytes taken once, any number of times      *)
(* (star) or at least once (plus).                                         *)
(***************************************************************************)

ReBol == [k |-> "bol"]
ReEol == [k |-> "eol"]
ReSet(set, rep) == [k |-> "set", set |-> set, rep |-> rep]

\* A literal string.
ReLit(s) == << [k |-> "lit", s |-> s] >>

\* '.': any byte of the subject.
ReAnyByte == 1..255

\* [0-9]
ReDigits == Ord("0")..Ord("9")

\* [a-zA-Z0-9_\.] and [a-zA-Z00-9_\.]: inside a bracket expression the
\* backslash stands for itself.
ReIdentClass ==
  (Ord("a")..Ord("z")) \cup (Ord("A")..Ord("Z")) \cup (Ord("0")..Ord("9"))
    \cup {Ord("_"), Ord("<bslash>"), Ord(".")}

\* Whether atoms k.. of re match a substring of s that starts at position i.
RECURSIVE ReMatchAt(_, _, _, _)
ReMatchAt(re, k, s, i) ==
  IF k > Len(re) THEN TRUE
  ELSE LET a == re[k] IN
    CASE a.k = "bol" -> i = 1 /\ ReMatchAt(re, k + 1, s, i)
      [] a.k = "eol" -> i = Len(s) + 1 /\ ReMatchAt(re, k + 1, s, i)
      [] a.k = "lit" ->
           /\ i + Len(a.s) - 1 <= Len(s)
           /\ SubSeq(s, i, i + Len(a.s) - 1) = a.s
           /\ ReMatchAt(re, k + 1, s, i + Len(a.s))
      [] a.k = "set" /\ a.rep = "1" ->
           i <= Len(s) /\ s[i] \in a.set /\ ReMatchAt(re, k + 1, s, i + 1)
      [] a.k = "set" /\ a.rep = "*" ->
           \E n \in 0..RunLength(s, i, a.set) : ReMatchAt(re, k + 1, s, i + n)
      [] a.k = "set" /\ a.rep = "+" ->
           \E n \in 1..RunLength(s, i, a.set) : ReMatchAt(re, k + 1, s, i + n)

\* regexec(&regex, s, 0, NULL, 0) = 0: some substring of s matches.
regexec(re, s) == \E i \in 1..(Len(s) + 1) : ReMatchAt(re, 1, s, i)

\* "^<lit>.*$"
RePrefixAny(lit) == <<ReBol>> \o ReLit(lit) \o <<ReSet(ReAnyByte, "*"), ReEol>>

\* "^<lit>\\.[0-9]+$"
ReDotNumber(lit) ==
  <<ReBol>> \o ReLit(lit) \o <<ReSet({Ord(".")}, "1"), ReSet(ReDigits, "+"), ReEol>>

\* "^<lit>[a-zA-Z00-9_\\.]*$"
RePrefixIdent(lit) == <<ReBol>> \o ReLit(lit) \o <<ReSet(ReIdentClass, "*"), ReEol>>

\* The entries of ignore_regex (kas_alias.c:32-52) that are compiled in
\* whatever the configuration: the first and the last.
ignore_regex_cfi == RePrefixAny(Str(<<"_", "_", "c", "f", "i", "_">>))
ignore_regex_pfx == RePrefixAny(Str(<<"_", "_", "p", "f", "x", "_">>))

\* The entries between them (kas_alias.c:35-49).
ignore_regex_middle ==
  << <<ReBol, ReSet({Ord("_")}, "*")>>
       \o ReLit(Str(<<"T", "R", "A", "C", "E", "_", "S", "Y", "S", "T", "E", "M">>))
       \o <<ReSet(ReAnyByte, "*"), ReEol>>,
     ReDotNumber(Str(<<"_", "_", "a", "l", "r", "e", "a", "d", "y", "_", "d", "o", "n", "e">>)),
     ReDotNumber(Str(<<"_", "_", "_", "t", "p", "_", "s", "t", "r">>)),
     ReDotNumber(Str(<<"_", "_", "_", "d", "o", "n", "e">>)),
     ReDotNumber(Str(<<"_", "_", "p", "r", "i", "n", "t", "_", "o", "n", "c", "e">>)),
     ReDotNumber(Str(<<"_", "r", "s">>)),
     ReDotNumber(Str(<<"_", "_", "c", "o", "m", "p", "o", "u", "n", "d", "_",
                       "l", "i", "t", "e", "r", "a", "l">>)),
     ReDotNumber(Str(<<"_", "_", "_", "o", "n", "c", "e", "_", "k", "e", "y">>)),
     ReDotNumber(Str(<<"_", "_", "f", "u", "n", "c", "_", "_">>)),
     ReDotNumber(Str(<<"_", "_", "m", "s", "g">>)),
     ReDotNumber(Str(<<"C", "S", "W", "T", "C", "H">>)),
     ReDotNumber(Str(<<"_", "_", "f", "l", "a", "g", "s">>)),
     RePrefixAny(Str(<<"_", "_", "w", "k", "e", "y">>)),
     RePrefixAny(Str(<<"_", "_", "m", "k", "e", "y">>)),
     RePrefixAny(Str(<<"_", "_", "k", "e", "y">>)) >>

\* ignore_regex of kas_alias.c:32-52; the middle entries are compiled in
\* unless CONFIG_KALLSYMS_ALIAS_DATA_ALL is defined.
ignore_regex(alias_data_all) ==
  <<ignore_regex_cfi>>
    \o (IF alias_data_all THEN <<>> ELSE ignore_regex_middle)
    \o <<ignore_regex_pfx>>

\* ignore_regex of the sort-based revision (part_000:18-25).  No comma
\* separates the last two string literals, so the compiler joins them into
\* the single expression "^__mkey[...]*$^__key[...]*$".
ignore_regex_S ==
  << RePrefixIdent(Str(<<"_", "_", "c", "f", "i", "_">>)),
     RePrefixIdent(Str(<<"_", "_", "p", "f", "x", "_">>)),
     RePrefixIdent(Str(<<"l", "o", "c", "k", "_", "c", "l", "a", "s", "s">>)),
     RePrefixIdent(Str(<<"_", "_", "w", "k", "e", "y">>)),
     RePrefixIdent(Str(<<"_", "_", "m", "k", "e", "y">>))
       \o RePrefixIdent(Str(<<"_", "_", "k", "e", "y">>)) >>

FNOMATCH == 0
FMATCH == 1
EREGEX == 2

\* filter_symbols(symbol, ignore_list, regex_no): FMATCH at the first
\* expression that matches, FNOMATCH when none does.  regcomp succeeds on
\* every expression of both lists and regexec, given no memory shortage,
\* returns 0 or REG_NOMATCH, so -EREGEX is not returned.
RECURSIVE filter_symbols_from(_, _, _)
filter_symbols_from(symbol, ignore_list, i) ==
  IF i > Len(ignore_list) THEN FNOMATCH
  ELSE IF regexec(ignore_list[i], symbol) THEN FMATCH
  ELSE filter_symbols_from(symbol, ignore_list, i + 1)

filter_symbols(symbol, ignore_list) == filter_symbols_from(symbol, ignore_list, 1)

\* Which call of regcomp fails for want of memory during one call of
\* filter_symbols: none (0) or the first.
RegcompFailures == {0, 1}

\* filter_symbols when the fail_at-th regcomp fails (kas_alias.c:99-101):
\* an expression before it that matches still returns FMATCH.
filter_symbols_failing(symbol, ignore_list, fail_at) ==
  IF fail_at = 0 THEN filter_symbols(symbol, ignore_list)
  ELSE IF filter_symbols(symbol, SubSeq(ignore_list, 1, fail_at - 1)) = FMATCH THEN FMATCH
  ELSE 0 - EREGEX

(***************************************************************************)
(* Text input and output: fscanf / fprintf                                 *)
(***************************************************************************)

\* The width of the %99s conversion that reads a symbol name.
SCAN_NAME_WIDTH == 99

HexDigits == Str(<<"0", "1", "2", "3", "4", "5", "6", "7", "8", "9",
                   "a", "b", "c", "d", "e", "f">>)

\* Value of one hexadecimal digit.
HexDigitVal(b) ==
  IF b \in Ord("0")..Ord("9") THEN b - Ord("0")
  ELSE IF b \in Ord("a")..Ord("f") THEN b - Ord("a") + 10
  ELSE b - Ord("A") + 10

\* The bytes that are hexadecimal digits.
XDigits == {b \in 1..255 : isxdigit(b)}

\* Number of leading hexadecimal digits of a token.
HexPrefixLen(tok) == RunLength(tok, 1, XDigits)

\* The number a string of hexadecimal digits denotes (%lx).
RECURSIVE HexVal(_)
HexVal(ds) ==
  IF ds = <<>> THEN 0
  ELSE 16 * HexVal(SubSeq(ds, 1, Len(ds) - 1)) + HexDigitVal(ds[Len(ds)])

\* The hexadecimal digits of n, most significant first, empty for 0.
RECURSIVE HexOf(_)
HexOf(n) == IF n = 0 THEN <<>> ELSE Append(HexOf(n \div 16), HexDigits[(n % 16) + 1])

\* "%08lx": lower-case hexadecimal, zero-padded to at least 8 digits.
Fmt08lx(n) ==
  LET ds == HexOf(n)
  IN  [i \in 1..(IF Len(ds) < 8 THEN 8 - Len(ds) ELSE 0) |-> Ord("0")] \o ds

\* "%d" of a natural number.
RECURSIVE DecOf(_)
DecOf(n) ==
  IF n < 10 THEN <<Ord("0") + n>> ELSE Append(DecOf(n \div 10), Ord("0") + (n % 10))

\* A text stream is the sequence of its whitespace-separated tokens.  Every
\* directive of "%lx %c %99s\n" skips white space first, so the tokens are
\* all fscanf sees.  The stream with the first k bytes of its first token
\* consumed:
Consume(stream, k) ==
  IF k = Len(Head(stream)) THEN Tail(stream)
  ELSE <<SubSeq(Head(stream), k + 1, Len(Head(stream)))>> \o Tail(stream)

\* fscanf(fp, "%lx %c %99s\n", &address, &t, sym_name): the number of
\* conversions done (-1 for EOF), the values converted and the stream left.
\* %lx takes the longest prefix of hexadecimal digits of the first token, %c
\* the next byte, %99s at most 99 bytes of the token that follows.
fscanf(stream) ==
  IF stream = <<>> THEN [n |-> -1, rest |-> stream]
  ELSE LET k  == HexPrefixLen(Head(stream))
           s1 == Consume(stream, k)
       IN  IF k = 0 THEN [n |-> 0, rest |-> stream]
           ELSE IF s1 = <<>> THEN [n |-> 1, rest |-> s1]
           ELSE LET s2 == Consume(s1, 1)
                IN  IF s2 = <<>> THEN [n |-> 2, rest |-> s2]
                    ELSE LET w == IF Len(Head(s2)) > SCAN_NAME_WIDTH
                                  THEN SCAN_NAME_WIDTH ELSE Len(Head(s2))
                         IN  [n       |-> 3,
                              address |-> HexVal(SubSeq(Head(stream), 1, k)),
                              t       |-> Head(s1)[1],
                              name    |-> SubSeq(Head(s2), 1, w),
                              rest    |-> Consume(s2, w)]

\* %99s stores the bytes and a NUL into the caller's buffer and leaves the
\* bytes behind the NUL as they were.
StoreString(buf, s) ==
  s \o <<0>> \o SubSeq(buf, Len(s) + 2, Len(buf))

\* One line of the listing, "%08lx %c %s\n", as its three tokens
\* (printnm, kas_alias.c:127; part_000:153).
FmtLine(item) == << Fmt08lx(item.addr), <<item.stype>>, item.symb_name >>

\* The token stream of a text made of the given lines.
RECURSIVE Tokens(_)
Tokens(lines) == IF lines = <<>> THEN <<>> ELSE Head(lines) \o Tokens(Tail(lines))

(***************************************************************************)
(* The symbol store (struct heads, item_list.c:337-434)                    *)
(*                                                                         *)
(* A struct item is a record; its id stands for its address in memory, so  *)
(* a pointer to an item is an id and NULL is 0.  The chain that starts at  *)
(* head is the sequence of its items.  The field orig is not part of the   *)
(* C structure: it records the id of the item an alias was made from (0    *)
(* for an item read from the input).                                       *)
(***************************************************************************)

NULL == 0

Item(id, name, addr, stype, orig) ==
  [id |-> id, symb_name |-> name, addr |-> addr, stype |-> stype, orig |-> orig]

\* Position in the chain of the item a pointer refers to (0 if none).
PosOf(l, ptr) ==
  IF \E i \in 1..Len(l) : l[i].id = ptr
  THEN CHOOSE i \in 1..Len(l) : l[i].id = ptr
  ELSE 0

\* p->next for the item p of the chain.
NextOf(l, ptr) ==
  LET i == PosOf(l, ptr) IN IF i = 0 \/ i = Len(l) THEN NULL ELSE l[i + 1].id

\* The chain after linking new_item behind the item at position i: what
\* followed position i follows new_item.
LinkAfter(l, i, new_item) ==
  SubSeq(l, 1, i) \o <<new_item>> \o SubSeq(l, i + 1, Len(l))

\* The list part of add_item (item_list.c:361-381): the new item becomes
\* the successor of h->tail, and its own next is NULL, so whatever followed
\* the old tail is no longer reachable from head.
add_item_list(l, tail, new_item) ==
  IF l = <<>> THEN <<new_item>>
  ELSE Append(SubSeq(l, 1, PosOf(l, tail)), new_item)

\* update_hash_index(index, key), item_list.c:307-335.  key is the caller's
\* buffer; table maps a bucket number to its chain of nodes, first node
\* first.  A node whose key compares equal is counted up; otherwise a node
\* with count 1 is put in front of the chain.
update_hash_index(table, key) ==
  LET b     == hash_function(key)
      name  == CStr(key)
      chain == IF b \in DOMAIN table THEN table[b] ELSE <<>>
      hit   == {i \in 1..Len(chain) : strcmp(chain[i].key, name) = 0}
  IN  IF hit # {}
      THEN LET i == CHOOSE j \in hit : \A m \in hit : j <= m
           IN  [table EXCEPT ![b][i].count = @ + 1]
      ELSE [c \in (DOMAIN table) \cup {b} |->
              IF c = b THEN <<[key |-> name, count |-> 1]>> \o chain ELSE table[c]]

\* item_counter(h, key), item_list.c:423-434: the count of the first node of
\* the key's bucket whose key compares equal, -1 when there is none.
item_counter(table, key) ==
  LET b     == hash_function(key)
      name  == CStr(key)
      chain == IF b \in DOMAIN table THEN table[b] ELSE <<>>
      hit   == {i \in 1..Len(chain) : strcmp(chain[i].key, name) = 0}
  IN  IF hit # {}
      THEN chain[CHOOSE j \in hit : \A m \in hit : j <= m].count
      ELSE -1

\* add_item_at(itm, symb_name, addr, stype), item_list.c:386-401: the new
\* item is linked right behind itm.  Neither h->tail nor the hash index is
\* touched.
add_item_at(l, itm, new_item) == LinkAfter(l, PosOf(l, itm), new_item)

(***************************************************************************)
(* The addr2line bridge (part_007:251-438)                                 *)
(***************************************************************************)

\* The tokens strtok(inbuf, "/") yields: the maximal runs of bytes other
\* than '/'.
strtok_all(s) ==
  LET starts == {i \in 1..Len(s) : s[i] # Ord("/") /\ (i = 1 \/ s[i - 1] = Ord("/"))}
      start(k) == CHOOSE i \in starts : Cardinality({j \in starts : j < i}) = k - 1
  IN  [k \in 1..Cardinality(starts) |->
         SubSeq(s, start(k), start(k) + RunLength(s, start(k), (1..255) \ {Ord("/")}) - 1)]

\* strrchr(s, '/'): position of the last '/' (0 if none).
LastSlash(s) ==
  IF \E i \in 1..Len(s) : s[i] = Ord("/")
  THEN CHOOSE i \in 1..Len(s) : s[i] = Ord("/") /\ \A j \in (i + 1)..Len(s) : s[j] # Ord("/")
  ELSE 0

\* The token loop of normalize_path (part_007:285-299): toks[k..] applied to
\* the output built so far.  prev_token is NULL only at the first token.
RECURSIVE normalize_tokens(_, _, _)
normalize_tokens(toks, k, out) ==
  IF k > Len(toks) THEN out
  ELSE LET token == toks[k] IN
    IF token = Str(<<".", ".">>) /\ k > 1
    THEN normalize_tokens(toks, k + 1,
           IF LastSlash(out) # 0 THEN SubSeq(out, 1, LastSlash(out) - 1) ELSE out)
    ELSE IF token # Str(<<".">>)
    THEN normalize_tokens(toks, k + 1, out \o <<Ord("/")>> \o token)
    ELSE normalize_tokens(toks, k + 1, out)

\* A char pointer: NULL, or the string it points to.
NullStr == [null |-> TRUE]
SomeStr(s) == [null |-> FALSE, s |-> s]

\* normalize_path(input_path, output_path), part_007:272-302.
normalize_path(input_path) ==
  IF Len(input_path) = 0 THEN NullStr
  ELSE SomeStr(normalize_tokens(strtok_all(input_path), 1, <<>>))

\* remove_subdir(home, f_path), part_007:393-401, for f_path # NULL and
\* f_path # home: i stops at the first position where the two strings
\* differ, the terminating NUL of either included.
remove_subdir(home, f_path) ==
  LET byte(s, i) == IF i <= Len(s) THEN s[i] ELSE 0
      i == CHOOSE n \in 0..Len(home) :
             /\ byte(home, n + 1) # byte(f_path, n + 1)
             /\ \A m \in 0..(n - 1) : byte(home, m + 1) = byte(f_path, m + 1)
  IN  IF Len(home) # i THEN NullStr ELSE SomeStr(SubSeq(f_path, i + 1, Len(f_path)))

\* addr2line_get_lines(address), part_007:403-423, given the second line the
\* child answers with (the first, the function name, is read and dropped):
\* the newline is cut off and the rest is normalised.
addr2line_get_lines(answer) == normalize_path(answer)

(***************************************************************************)
(* Alias names (kas_alias.c:17-90)                                         *)
(***************************************************************************)

SYMB_IS_TEXT(stype) == stype = Ord("t") \/ stype = Ord("T")

SYMB_IS_DATA(stype) ==
  \/ stype = Ord("b") \/ stype = Ord("B")
  \/ stype = Ord("d") \/ stype = Ord("D")
  \/ stype = Ord("r") \/ stype = Ord("R")

\* SYMB_NEEDS_ALIAS as it would be if the definition for
\* CONFIG_KALLSYMS_ALIAS_DATA were used in every build.
SYMB_NEEDS_ALIAS_EveryBuild(alias_data, stype) ==
  SYMB_IS_TEXT(stype) \/ SYMB_IS_DATA(stype)

\* SYMB_NEEDS_ALIAS, with or without CONFIG_KALLSYMS_ALIAS_DATA.
SYMB_NEEDS_ALIAS(alias_data, stype) ==
  IF alias_data THEN SYMB_IS_TEXT(stype) \/ SYMB_IS_DATA(stype) ELSE SYMB_IS_TEXT(stype)

\* NEED2NORMALIZE as it would be if '.' were kept as well as '@'.
NEED2NORMALIZE_DotKept(b) == ~isalnum(b) /\ b # Ord("@") /\ b # Ord(".")

NEED2NORMALIZE(b) == ~isalnum(b) /\ b # Ord("@")

\* "__alias__"
AliasInfix == Str(<<"_", "_", "a", "l", "i", "a", "s", "_", "_">>)

\* create_suffix(name, output_suffix): "%s__alias__%d" with the serial.
create_suffix(name, serial) == name \o AliasInfix \o DecOf(serial)

\* The file-based name of create_file_suffix (kas_alias.c:81-86):
\* "%s@%s", then every byte of the whole result that is neither
\* alphanumeric nor '@' becomes '_'.
file_suffix(name, f_path) ==
  LET raw == name \o <<Ord("@")>> \o f_path
  IN  [i \in 1..Len(raw) |-> IF NEED2NORMALIZE(raw[i]) THEN Ord("_") ELSE raw[i]]

\* create_file_suffix as it would be if create_suffix used suffix_serial
\* without incrementing it.
create_file_suffix_SerialKept(name, buf, cwd, serial) ==
  LET f_path == remove_subdir(cwd, buf)
  IN  IF ~f_path.null
      THEN [name |-> file_suffix(name, f_path.s), serial |-> serial, form |-> "file"]
      ELSE [name |-> create_suffix(name, serial), serial |-> serial, form |-> "serial"]

\* create_file_suffix(name, address, output_suffix, cwd) for a location buf
\* that is not NULL: the alias name and whether the serial was used.
create_file_suffix(name, buf, cwd, serial) ==
  LET f_path == remove_subdir(cwd, buf)
  IN  IF ~f_path.null
      THEN [name |-> file_suffix(name, f_path.s), serial |-> serial, form |-> "file"]
      ELSE [name |-> create_suffix(name, serial), serial |-> serial + 1, form |-> "serial"]

(***************************************************************************)
(* State                                                                   *)
(***************************************************************************)

VARIABLES
  cfg,             \* build configuration, command line and listing of the run
  fp,              \* the input stream: the tokens not read yet
  sym_name,        \* main's buffer sym_name[MAX_NAME_SIZE]
  list,            \* the chain of items that starts at head
  tail,            \* h->tail
  table,           \* h->index->table, the buckets that are not empty
  nalloc,          \* number of items allocated so far
  need_2_process,  \* main's flag
  iter,            \* item_iterator / duplicate_iterator
  suffix_serial,   \* the global serial of create_suffix
  duplicates,      \* the list find_duplicates returned (sort-based revision)
  list_index,      \* the global first-letter index (sort-based revision)
  addr2line_pid,   \* the child: -1 when there is none
  answers,         \* what addr2line answers, for the addresses asked so far
  pc,              \* where main is
  out,             \* the lines written to the output
  exit_code,       \* main's return value, -1 while it runs
  run,             \* 1 for the run on the listing, 2 for the run on its output
  first_out,       \* the output of run 1
  a2l,             \* the pipes to and from the child and what the queries returned
  regex_failed,    \* whether filter_symbols has met a regular expression error
  call             \* the library function called on its own, its arguments and result

vars == << cfg, fp, sym_name, list, tail, table, nalloc, need_2_process, iter,
           suffix_serial, duplicates, list_index, addr2line_pid, answers, pc,
           out, exit_code, run, first_out, a2l, regex_failed, call >>

(***************************************************************************)
(* Bounds and input domains                                                *)
(***************************************************************************)

\* Longest listing, in lines.
MaxLines == 2

n_dev == Str(<<"d", "e", "v">>)
n_f1  == Str(<<"f", ".", "1">>)
n_pfx == Str(<<"_", "_", "p", "f", "x", "_", "x">>)
n_rs  == Str(<<"_", "r", "s", ".", "1">>)
n_key == Str(<<"_", "_", "k", "e", "y">>)

\* A line "<address> <type> <name>" of the listing, as its tokens.
Line(addr, t, name) == << Fmt08lx(addr), <<Ord(t)>>, name >>

\* What the uninitialised buffer sym_name may hold when main starts.
StackFills == {0, 170}

\* The directory of the image, vmlinux_path: "/k".
ImageDir == Str(<<"/", "k">>)

\* Second answer lines of addr2line: two places below the image directory
\* (one written with "." and ".." components), one outside it, and the
\* answer for an address without debug information.
loc_a   == Str(<<"/", "k", "/", "a", ".", "c", ":", "1">>)
loc_b   == Str(<<"/", "k", "/", "x", "/", ".", ".", "/", ".", "/", "b", ".", "c", ":", "2">>)
loc_out == Str(<<"/", "o", "/", "a", ".", "c", ":", "1">>)
loc_unk == Str(<<"?", "?", ":", "0">>)

Locations == {loc_a, loc_b, loc_unk}

\* All sequences over S of length at most n.
SeqsUpTo(S, n) == UNION {[1..k -> S] : k \in 0..n}

\* No bucket in use / no address asked yet.
EmptyMap == <<>>

\* An answer of the child to one query: its second line, or end of file on
\* the pipe (the child has gone).
Answers == {[eof |-> TRUE, line |-> <<>>]} \cup {[eof |-> FALSE, line |-> l] : l \in Locations}

\* The child answers the same address the same way every time.
AnswerChoices(a) == IF a \in DOMAIN answers THEN {answers[a]} ELSE Answers

Remember(a, ans) ==
  IF a \in DOMAIN answers THEN answers
  ELSE [x \in (DOMAIN answers) \cup {a} |-> IF x = a THEN ans ELSE answers[x]]

\* The three build configurations: text symbols only; data symbols too
\* (CONFIG_KALLSYMS_ALIAS_DATA); data symbols with the short filter list
\* (CONFIG_KALLSYMS_ALIAS_DATA_ALL as well).
Configs ==
  { [alias_data |-> FALSE, alias_data_all |-> FALSE, vmlinux_path |-> ImageDir],
    [alias_data |-> TRUE,  alias_data_all |-> FALSE, vmlinux_path |-> ImageDir],
    [alias_data |-> TRUE,  alias_data_all |-> TRUE,  vmlinux_path |-> ImageDir] }

\* The session with addr2line before addr2line_init: both pipes empty, no
\* child, no call of addr2line_get_lines made.  sigpipe is the disposition
\* of SIGPIPE the process was started with (the program installs no
\* handler); long records that the child has written a line that does not
\* fit the buffer fgets reads into.
NoSession ==
  [in |-> <<>>, out |-> <<>>, child |-> "none", calls |-> <<>>,
   sigpipe |-> "default", long |-> FALSE]

\* A configuration together with the lines of the file cfg->nm_data names.
WithListing(c, lines) ==
  [alias_data |-> c.alias_data, alias_data_all |-> c.alias_data_all,
   vmlinux_path |-> c.vmlinux_path, nm_data |-> lines]

\* No library function has been called on its own.
NoCall == [fn |-> "none"]

\* The state main starts in, reading the given lines: its own variables.
FreshMain(c, lines, fill) ==
  /\ cfg = WithListing(c, lines)
  /\ fp = Tokens(lines)
  /\ sym_name = [i \in 1..MAX_NAME_SIZE |-> fill]
  /\ list = <<>>
  /\ tail = NULL
  /\ table = EmptyMap
  /\ nalloc = 0
  /\ need_2_process = TRUE
  /\ iter = NULL
  /\ suffix_serial = 0
  /\ duplicates = <<>>
  /\ list_index = EmptyMap
  /\ addr2line_pid = -1
  /\ answers = EmptyMap
  /\ pc = "start"
  /\ out = <<>>
  /\ exit_code = -1
  /\ run = 1
  /\ first_out = <<>>
  /\ regex_failed = FALSE
  /\ call = NoCall

\* The state main starts in, with no addr2line session yet.
Fresh(c, lines, fill) ==
  /\ FreshMain(c, lines, fill)
  /\ a2l = NoSession

(***************************************************************************)
(* The hash-indexed revision: main of kas_alias.c                          *)
(***************************************************************************)

\* The listings of the hash-indexed revision's runs: lines at two addresses
\* with text, data and absolute symbols, a plain name, a name with a byte
\* that is not alphanumeric, a name the always-applied filter matches and a
\* name only the long filter list matches.
KLines ==
  { Line(a, tn[1], tn[2]) :
      a \in {1, 2},
      tn \in { <<"t", n_dev>>, <<"D", n_dev>>, <<"A", n_dev>>,
               <<"t", n_f1>>, <<"t", n_pfx>>, <<"D", n_rs>> } }

InitK ==
  \E c \in Configs, lines \in SeqsUpTo(KLines, MaxLines), fill \in StackFills :
     Fresh(c, lines, fill)

\* kas_alias.c:152-175: the command line is parsed, the listing opened and
\* addr2line_init called; when that fails main returns 1.
K_Start ==
  /\ pc = "start"
  /\ \/ /\ addr2line_pid' = 1
        /\ pc' = "scan"
        /\ UNCHANGED exit_code
     \/ /\ addr2line_pid' = -1
        /\ pc' = "done"
        /\ exit_code' = 1
  /\ UNCHANGED << cfg, fp, sym_name, list, tail, table, nalloc, need_2_process, iter,
                  suffix_serial, duplicates, list_index, answers, out, run, first_out, a2l, regex_failed, call >>

\* "@_", the marker kas_alias.c:178 looks for.
MarkerFile == Str(<<"@", "_">>)

\* kas_alias.c:177-184: one turn of the reading loop, or its end
\* (kas_alias.c:186-200) when fscanf does not convert three fields.
K_Scan ==
  /\ pc = "scan"
  /\ \E r \in {fscanf(fp)} :
       IF r.n = 3
       THEN \E buf \in {StoreString(sym_name, r.name)} :
            \E new_item \in {Item(nalloc + 1, CStr(strncpy(CStr(buf))), r.address, r.t, 0)} :
                /\ fp' = r.rest
                /\ sym_name' = buf
                /\ need_2_process' = (need_2_process /\ ~strstr(r.name, MarkerFile))
                /\ list' = add_item_list(list, tail, new_item)
                /\ tail' = new_item.id
                /\ nalloc' = nalloc + 1
                /\ table' = update_hash_index(table, buf)
                /\ UNCHANGED << pc, iter >>
       ELSE /\ fp' = r.rest
            /\ pc' = IF need_2_process THEN "alias" ELSE "emit"
            /\ iter' = IF need_2_process /\ list # <<>> THEN list[1].id ELSE NULL
            /\ UNCHANGED << sym_name, need_2_process, list, tail, nalloc, table >>
  /\ UNCHANGED << cfg, suffix_serial, duplicates, list_index, addr2line_pid, answers,
                  out, exit_code, run, first_out, a2l, regex_failed, call >>

\* What filter_symbols may return for the item (kas_alias.c:206-209); a
\* build without CONFIG_KALLSYMS_ALIAS_DATA has no such call, which leaves
\* the test of line 218 alone, as a result of FNOMATCH would.
K_FilterResults(it) ==
  IF cfg.alias_data
  THEN { filter_symbols_failing(it.symb_name, ignore_regex(cfg.alias_data_all), f) :
           f \in RegcompFailures }
  ELSE { FNOMATCH }

\* Whether the tests of kas_alias.c:210-211 or 218 let the item into the
\* block that makes an alias, given the result of filter_symbols.
K_Wants(it, res) ==
  res # FMATCH /\ SYMB_NEEDS_ALIAS(cfg.alias_data, it.stype)

\* kas_alias.c:201-229: one turn of the alias loop on the item
\* item_iterator points to.  A negative result of filter_symbols ends main
\* with 1 after cleanup(cfg, h) when the item is of a type that needs an
\* alias (kas_alias.c:212-216); addr2line_cleanup is not called on that
\* path.  create_file_suffix asks the child; when addr2line_get_lines
\* returns NULL (end of file on the pipe), remove_subdir reads through the
\* NULL pointer and the process dies.
K_Alias ==
  /\ pc = "alias"
  /\ iter # NULL
  /\ \E it \in {list[PosOf(list, iter)]} :
       IF item_counter(table, strncpy(it.symb_name)) <= 1
       THEN /\ iter' = NextOf(list, iter)
            /\ UNCHANGED << list, nalloc, suffix_serial, answers, pc, exit_code,
                            regex_failed, call >>
       ELSE \E res \in K_FilterResults(it) :
         /\ regex_failed' = (regex_failed \/ res < 0)
         /\ IF ~K_Wants(it, res)
            THEN /\ iter' = NextOf(list, iter)
                 /\ UNCHANGED << list, nalloc, suffix_serial, answers, pc, exit_code >>
            ELSE IF res < 0
            THEN /\ pc' = "done"
                 /\ exit_code' = 1
                 /\ UNCHANGED << list, nalloc, suffix_serial, answers, iter >>
            ELSE \E ans \in AnswerChoices(it.addr) :
              /\ answers' = Remember(it.addr, ans)
              /\ UNCHANGED exit_code
              /\ \E buf \in {IF ans.eof THEN NullStr ELSE addr2line_get_lines(ans.line)} :
                   IF buf.null
                   THEN /\ pc' = "crashed"
                        /\ UNCHANGED << list, nalloc, suffix_serial, iter >>
                   ELSE \E sfx \in {create_file_suffix(it.symb_name, buf.s,
                                                       cfg.vmlinux_path, suffix_serial)} :
                        \E new_item \in {Item(nalloc + 1, sfx.name, it.addr, it.stype, it.id)} :
                            /\ list' = add_item_at(list, iter, new_item)
                            /\ nalloc' = nalloc + 1
                            /\ suffix_serial' = sfx.serial
                            /\ iter' = NextOf(list', iter)
                            /\ UNCHANGED pc
  /\ UNCHANGED << cfg, fp, sym_name, tail, table, need_2_process, duplicates, list_index,
                  addr2line_pid, out, run, first_out, a2l, call >>

\* The end of the alias loop.
K_AliasEnd ==
  /\ pc = "alias"
  /\ iter = NULL
  /\ pc' = "emit"
  /\ UNCHANGED << cfg, fp, sym_name, list, tail, table, nalloc, need_2_process, iter,
                  suffix_serial, duplicates, list_index, addr2line_pid, answers, out,
                  exit_code, run, first_out, a2l, regex_failed, call >>

\* printnm(h, fn), kas_alias.c:119-131: the chain from head, one line each.
printnm(l) == [i \in 1..Len(l) |-> FmtLine(l[i])]

\* kas_alias.c:232-236: the listing is written, the child killed and
\* reaped, the store freed; main returns 0.
K_Emit ==
  /\ pc = "emit"
  /\ out' = printnm(list)
  /\ addr2line_pid' = -1
  /\ pc' = "done"
  /\ exit_code' = 0
  /\ UNCHANGED << cfg, fp, sym_name, list, tail, table, nalloc, need_2_process, iter,
                  suffix_serial, duplicates, list_index, answers, run, first_out, a2l, regex_failed, call >>

\* The tool is run again on the listing it wrote, in the same configuration
\* and with the same addr2line.
Rerun ==
  /\ pc = "done"
  /\ exit_code = 0
  /\ run = 1
  /\ \E fill \in StackFills :
       /\ fp' = Tokens(out)
       /\ sym_name' = [i \in 1..MAX_NAME_SIZE |-> fill]
  /\ list' = <<>>
  /\ tail' = NULL
  /\ table' = EmptyMap
  /\ nalloc' = 0
  /\ need_2_process' = TRUE
  /\ iter' = NULL
  /\ suffix_serial' = 0
  /\ duplicates' = <<>>
  /\ list_index' = EmptyMap
  /\ pc' = "start"
  /\ out' = <<>>
  /\ exit_code' = -1
  /\ run' = 2
  /\ first_out' = out
  /\ cfg' = WithListing(cfg, out)
  /\ regex_failed' = FALSE
  /\ UNCHANGED << addr2line_pid, answers, a2l, call >>

NextK == K_Start \/ K_Scan \/ K_Alias \/ K_AliasEnd \/ K_Emit

\* One run of the hash-indexed revision.
SpecK == InitK /\ [][NextK]_vars

NextKRerun == K_Start \/ K_Scan \/ K_Alias \/ K_AliasEnd \/ K_Emit \/ Rerun

\* A run of the hash-indexed revision and a second run on its output.
SpecKRerun == InitK /\ [][NextKRerun]_vars

\* The shortest name the conversion %99s does not take whole.
n_long == [i \in 1..(SCAN_NAME_WIDTH + 1) |-> Ord("x")]

\* Listings with a long name.
KLongLines == { Line(1, "t", n_long), Line(1, "t", n_dev), Line(2, "t", n_dev) }

InitKLong ==
  \E c \in Configs, lines \in SeqsUpTo(KLongLines, MaxLines), fill \in StackFills :
     Fresh(c, lines, fill)

\* One run of the hash-indexed revision on a listing with a long name.
SpecKLong == InitKLong /\ [][NextK]_vars

(***************************************************************************)
(* The sort-based revision: the list of item_list.c:1-230, find_duplicates *)
(* of duplicates_list.c:101-151 and main of part_000                       *)
(***************************************************************************)

BY_ADDRESS == 1
BY_NAME == 2

\* strncpy(dst, name, MAX_NAME_SIZE); dst[MAX_NAME_SIZE - 1] = '\0'
\* (item_list.c:40-41, 206-207): the string dst then holds.
strncpy_terminated(name) ==
  CStr([i \in 1..MAX_NAME_SIZE |-> IF i = MAX_NAME_SIZE THEN 0 ELSE strncpy(name)[i]])

\* TakesLeft as it would be if merge compared with < instead of <=.
TakesLeft_Strict(l, r, sort_by) ==
  \/ sort_by = BY_NAME /\ strcmp(l.symb_name, r.symb_name) < 0
  \/ sort_by = BY_ADDRESS /\ l.addr < r.addr

\* Whether merge takes the head of left before the head of right
\* (item_list.c:102, 111, 125, 134).
TakesLeft(l, r, sort_by) ==
  \/ sort_by = BY_NAME /\ strcmp(l.symb_name, r.symb_name) <= 0
  \/ sort_by = BY_ADDRESS /\ l.addr <= r.addr

\* merge(left, right, sort_by), item_list.c:91-155.
RECURSIVE merge(_, _, _)
merge(left, right, sort_by) ==
  IF left = <<>> THEN right
  ELSE IF right = <<>> THEN left
  ELSE IF TakesLeft(Head(left), Head(right), sort_by)
       THEN <<Head(left)>> \o merge(Tail(left), right, sort_by)
       ELSE <<Head(right)>> \o merge(left, Tail(right), sort_by)

\* merge_sort(head, sort_by), item_list.c:157-183: slow stops on the last
\* item of the left half, which has (n + 1) / 2 of the n items.
RECURSIVE merge_sort(_, _)
merge_sort(l, sort_by) ==
  IF Len(l) <= 1 THEN l
  ELSE LET half == (Len(l) + 1) \div 2
       IN  merge(merge_sort(SubSeq(l, 1, half), sort_by),
                 merge_sort(SubSeq(l, half + 1, Len(l)), sort_by),
                 sort_by)

\* sort_list_m(&head, sort_by), item_list.c:185-191.
sort_list_m(l, sort_by) == IF Len(l) <= 1 THEN l ELSE merge_sort(l, sort_by)

\* The loop of find_duplicates (duplicates_list.c:110-148) from the i-th
\* item on; dups holds the original_item pointers collected so far.
RECURSIVE find_duplicates_from(_, _, _, _)
find_duplicates_from(l, i, prev_was_duplicate, dups) ==
  IF i > Len(l) THEN dups
  ELSE IF \/ i > 1 /\ strcmp(l[i].symb_name, l[i - 1].symb_name) = 0
          \/ prev_was_duplicate
       THEN find_duplicates_from(l, i + 1, ~prev_was_duplicate, Append(dups, l[i - 1].id))
       ELSE find_duplicates_from(l, i + 1, prev_was_duplicate, dups)

\* find_duplicates(list), duplicates_list.c:101-151; the empty sequence is
\* the NULL it returns when it has collected nothing.
find_duplicates(l) == find_duplicates_from(l, 1, FALSE, <<>>)

\* m with k mapped to v.
Put(m, k, v) == [x \in (DOMAIN m) \cup {k} |-> IF x = k THEN v ELSE m[x]]

\* The loop of build_index (item_list.c:22-28) from the i-th item on.
RECURSIVE build_index_from(_, _, _, _)
build_index_from(l, i, current_first_letter, idx) ==
  IF i > Len(l) THEN idx
  ELSE IF l[i].symb_name[1] # current_first_letter
       THEN build_index_from(l, i + 1, l[i].symb_name[1],
                             Put(idx, l[i].symb_name[1], l[i].id))
       ELSE build_index_from(l, i + 1, current_first_letter, idx)

\* build_index(list), item_list.c:17-29: the entries of list_index it sets.
build_index(l) == build_index_from(l, 1, Ord(" "), EmptyMap)

\* insert_after(list, search_addr, name, addr, stype), item_list.c:193-218:
\* from the index entry of the name's first byte (from the head when there
\* is none) the first item at search_addr gets new_item as its successor.
insert_after(l, idx, search_addr, new_item) ==
  LET first == IF new_item.symb_name[1] \in DOMAIN idx
               THEN PosOf(l, idx[new_item.symb_name[1]])
               ELSE 1
      found == {i \in first..Len(l) : l[i].addr = search_addr}
  IN  IF found = {}
      THEN [ret |-> 0, list |-> l]
      ELSE [ret |-> 1,
            list |-> LinkAfter(l, CHOOSE i \in found : \A j \in found : i <= j, new_item)]
n_alias1 == Str(<<"d", "e", "v", "_", "_", "a", "l", "i", "a", "s", "_", "_", "1">>)

\* The listings of the sort-based revision's runs: lines at two addresses
\* with text and data symbols, a plain name, names the filter list is
\* written for, and a name an earlier run could have made.
SLines ==
  { Line(a, tn[1], tn[2]) :
      a \in {1, 2},
      tn \in { <<"t", n_dev>>, <<"D", n_dev>>, <<"t", n_key>>, <<"t", n_pfx>>,
               <<"t", n_alias1>> } }

\* This revision has no build options and does not start addr2line.
NoConfig == [alias_data |-> FALSE, alias_data_all |-> FALSE, vmlinux_path |-> <<>>]

InitS ==
  \E lines \in SeqsUpTo(SLines, MaxLines), fill \in StackFills :
     Fresh(NoConfig, lines, fill)

\* part_000:84-98: the command line is checked and the listing opened;
\* when either fails main returns 1.
S_Start ==
  /\ pc = "start"
  /\ \/ /\ pc' = "scan"
        /\ UNCHANGED exit_code
     \/ /\ pc' = "done"
        /\ exit_code' = 1
  /\ UNCHANGED << cfg, fp, sym_name, list, tail, table, nalloc, need_2_process, iter,
                  suffix_serial, duplicates, list_index, addr2line_pid, answers, out,
                  run, first_out, a2l, regex_failed, call >>

\* "__alias__1", the marker part_000:101 looks for.
MarkerSerial == Str(<<"_", "_", "a", "l", "i", "a", "s", "_", "_", "1">>)

\* part_000:100-117: one turn of the reading loop, or its end when fscanf
\* does not convert three fields.  tail stands for main's pointer last.
S_Scan ==
  /\ pc = "scan"
  /\ \E r \in {fscanf(fp)} :
       IF r.n = 3
       THEN \E new_item \in {Item(nalloc + 1, strncpy_terminated(r.name), r.address, r.t, 0)} :
                /\ fp' = r.rest
                /\ sym_name' = StoreString(sym_name, r.name)
                /\ need_2_process' = (need_2_process /\ ~strstr(r.name, MarkerSerial))
                /\ list' = Append(list, new_item)
                /\ tail' = new_item.id
                /\ nalloc' = nalloc + 1
                /\ UNCHANGED pc
       ELSE /\ fp' = r.rest
            /\ pc' = IF need_2_process THEN "prepare" ELSE "emit"
            /\ UNCHANGED << sym_name, need_2_process, list, tail, nalloc >>
  /\ UNCHANGED << cfg, table, iter, suffix_serial, duplicates, list_index, addr2line_pid,
                  answers, out, exit_code, run, first_out, a2l, regex_failed, call >>

\* part_000:119-131: the list is sorted by name and searched for
\* duplicates; when find_duplicates returns NULL main returns 1, otherwise
\* the index is built and the alias loop starts at the first duplicate.
\* iter is the position of duplicate_iterator in the list of duplicates.
S_Prepare ==
  /\ pc = "prepare"
  /\ \E sorted \in {sort_list_m(list, BY_NAME)} :
     \E found \in {find_duplicates(sorted)} :
         /\ list' = sorted
         /\ duplicates' = found
         /\ IF found = <<>>
            THEN /\ pc' = "done"
                 /\ exit_code' = 1
                 /\ UNCHANGED << list_index, iter >>
            ELSE /\ list_index' = build_index(sorted)
                 /\ iter' = 1
                 /\ pc' = "alias"
                 /\ UNCHANGED exit_code
  /\ UNCHANGED << cfg, fp, sym_name, tail, table, nalloc, need_2_process, suffix_serial,
                  addr2line_pid, answers, out, run, first_out, a2l, regex_failed, call >>

\* part_000:132-147: one turn of the alias loop.  res is assigned the
\* result of the comparison with FMATCH, so "res < 0" is never true.
S_Alias ==
  /\ pc = "alias"
  /\ iter # NULL
  /\ \E it \in {list[PosOf(list, duplicates[iter])]} :
     \E next \in {IF iter = Len(duplicates) THEN NULL ELSE iter + 1} :
       \E filt \in { filter_symbols_failing(it.symb_name, ignore_regex_S, f) :
                       f \in RegcompFailures } :
         /\ regex_failed' = (regex_failed \/ filt < 0)
         /\ IF filt # FMATCH /\ SYMB_IS_TEXT(it.stype)
            THEN \E new_name \in {create_suffix(it.symb_name, suffix_serial)} :
              \E r \in {insert_after(list, list_index, it.addr,
                                     Item(nalloc + 1, strncpy_terminated(new_name),
                                          it.addr, it.stype, it.id))} :
                  /\ suffix_serial' = suffix_serial + 1
                  /\ IF r.ret = 0
                     THEN /\ pc' = "done"
                          /\ exit_code' = 1
                          /\ UNCHANGED << list, nalloc, iter >>
                     ELSE /\ list' = r.list
                          /\ nalloc' = nalloc + 1
                          /\ iter' = next
                          /\ UNCHANGED << pc, exit_code >>
            ELSE /\ iter' = next
                 /\ UNCHANGED << list, nalloc, suffix_serial, pc, exit_code >>
  /\ UNCHANGED << cfg, fp, sym_name, tail, table, need_2_process, duplicates, list_index,
                  addr2line_pid, answers, out, run, first_out, a2l, call >>

\* part_000:149: after the last duplicate the list is sorted by address.
S_AliasEnd ==
  /\ pc = "alias"
  /\ iter = NULL
  /\ list' = sort_list_m(list, BY_ADDRESS)
  /\ pc' = "emit"
  /\ UNCHANGED << cfg, fp, sym_name, tail, table, nalloc, need_2_process, iter,
                  suffix_serial, duplicates, list_index, addr2line_pid, answers, out,
                  exit_code, run, first_out, a2l, regex_failed, call >>

\* part_000:151-160: the list is printed and freed.  When the run was
\* short-circuited, duplicate was never assigned: free_duplicates walks
\* from whatever the stack held, so main returns 0 if that was NULL and
\* otherwise the process may die, with or without the buffered output
\* having reached the file.
S_Emit ==
  /\ pc = "emit"
  /\ \/ /\ out' = printnm(list)
        /\ pc' = "done"
        /\ exit_code' = 0
     \/ /\ ~need_2_process
        /\ out' \in {printnm(list), <<>>}
        /\ pc' = "crashed"
        /\ UNCHANGED exit_code
  /\ UNCHANGED << cfg, fp, sym_name, list, tail, table, nalloc, need_2_process, iter,
                  suffix_serial, duplicates, list_index, addr2line_pid, answers, run,
                  first_out, a2l, regex_failed, call >>

NextS == S_Start \/ S_Scan \/ S_Prepare \/ S_Alias \/ S_AliasEnd \/ S_Emit

\* One run of the sort-based revision.
SpecS == InitS /\ [][NextS]_vars

(***************************************************************************)
(* Runs of the hash-indexed revision on listings with names an earlier run *)
(* could have made and with a line that is not a record                    *)
(***************************************************************************)

\* A name in the file-based form: "dev@_a_c_1".
n_filed == Str(<<"d", "e", "v", "@", "_", "a", "_", "c", "_", "1">>)

\* The line "zz t dev": its first field is not a hexadecimal number.
BadLine == << Str(<<"z", "z">>), <<Ord("t")>>, n_dev >>

KEdgeLines ==
  { Line(1, "t", n_dev), Line(2, "t", n_dev), Line(1, "t", n_filed),
    Line(2, "t", n_alias1), BadLine }

\* Listings of up to three lines, so that a line can be the first, the
\* middle or the last one.
InitKEdge ==
  \E c \in Configs, lines \in SeqsUpTo(KEdgeLines, MaxLines + 1), fill \in StackFills :
     Fresh(c, lines, fill)

SpecKEdge == InitKEdge /\ [][NextK]_vars

\* A name with the first byte of "dev" that sorts before it.
n_dax == Str(<<"d", "a", "x">>)

\* Listings of the sort-based revision in which a duplicated name shares an
\* address with another name of the same first byte.
SSharedLines == { Line(1, "t", n_dax), Line(1, "t", n_dev), Line(2, "t", n_dev) }

InitSShared ==
  \E lines \in SeqsUpTo(SSharedLines, MaxLines + 1), fill \in StackFills :
     Fresh(NoConfig, lines, fill)

SpecSShared == InitSShared /\ [][NextS]_vars

\* "dev__alias__0", the first name create_suffix makes from "dev".
n_alias0 == create_suffix(n_dev, 0)

\* Listings of the hash-indexed revision in which a name the alias pass
\* makes is itself read more than once.
KNestLines == { Line(1, "t", n_dev), Line(2, "t", n_alias0) }

InitKNest ==
  \E c \in Configs, lines \in SeqsUpTo(KNestLines, MaxLines + 2), fill \in StackFills :
     Fresh(c, lines, fill)

SpecKNest == InitKNest /\ [][NextK]_vars

(***************************************************************************)
(* The addr2line session: addr2line_init, addr2line_get_lines and          *)
(* addr2line_cleanup, with the child as a process of its own               *)
(***************************************************************************)

\* Calls of addr2line_get_lines in one session.
MaxQueries == 3

\* a2l.h:8, the size of the buffer line[] both fgets read into.
MAX_BUF == 4096

\* The addresses asked for.
QueryAddresses == {1, 2}

\* The lengths in bytes, newline included, of the lines the child writes: a
\* line that fits line[] and the shortest one that does not.
LineLengths == {16, MAX_BUF}

\* A line in the pipe from the child, or what is left of it: the address it
\* answers, which of the two lines of the answer it is ("function", then
\* "location"), how many of its bytes went before and how many are there.
ResponseLine(address, part, len) ==
  [address |-> address, part |-> part, off |-> 0, len |-> len]

\* What fgets(line, sizeof(line), a2l_stdout) stores when the pipe holds
\* data: the bytes up to the newline, and no more than MAX_BUF - 1 of them;
\* nl tells whether the newline was reached.
fgets_taken(pipe) ==
  LET h == Head(pipe)
  IN  IF h.len <= MAX_BUF - 1
      THEN [address |-> h.address, part |-> h.part, off |-> h.off, len |-> h.len, nl |-> TRUE]
      ELSE [address |-> h.address, part |-> h.part, off |-> h.off, len |-> MAX_BUF - 1,
            nl |-> FALSE]

\* What that fgets leaves in the pipe.
fgets_left(pipe) ==
  LET h == Head(pipe)
  IN  IF h.len <= MAX_BUF - 1
      THEN Tail(pipe)
      ELSE << [h EXCEPT !.off = h.off + (MAX_BUF - 1), !.len = h.len - (MAX_BUF - 1)] >>
             \o Tail(pipe)

\* The variables of main, which the session leaves alone.
MainUnchanged ==
  UNCHANGED << cfg, fp, sym_name, list, tail, table, nalloc, need_2_process, iter,
               suffix_serial, duplicates, list_index, answers, out, run, first_out,
               regex_failed, call >>

\* A process that has read no listing, started with SIGPIPE at its default
\* disposition or ignored.
InitA2L ==
  /\ \E c \in {k \in Configs : ~k.alias_data} : FreshMain(c, <<>>, 0)
  /\ \E d \in {"default", "ignored"} : a2l = [NoSession EXCEPT !.sigpipe = d]

\* addr2line_init (part_007:334-391): the child is forked and the two
\* streams opened, or 0 is returned.
A2L_Init ==
  /\ pc = "start"
  /\ \/ /\ addr2line_pid' = 1
        /\ a2l' = [a2l EXCEPT !.child = "alive"]
        /\ pc' = "idle"
        /\ UNCHANGED exit_code
     \/ /\ addr2line_pid' = -1
        /\ pc' = "done"
        /\ exit_code' = 1
        /\ UNCHANGED a2l
  /\ MainUnchanged

\* addr2line_get_lines, part_007:403-408: the address is written and
\* flushed.  With the child gone the write raises SIGPIPE, which ends the
\* process unless the signal is ignored; then the write fails and the
\* function goes on to read.
A2L_Query ==
  /\ pc = "idle"
  /\ Len(a2l.calls) < MaxQueries
  /\ \E address \in QueryAddresses :
       \E made \in {[address |-> address, got |-> <<>>, result |-> "running"]} :
         IF a2l.child = "alive"
         THEN /\ a2l' = [a2l EXCEPT !.in = Append(@, address), !.calls = Append(@, made)]
              /\ pc' = "read1"
         ELSE IF a2l.sigpipe = "default"
         THEN /\ a2l' = [a2l EXCEPT !.calls = Append(@, made)]
              /\ pc' = "crashed"
         ELSE /\ a2l' = [a2l EXCEPT !.calls = Append(@, made)]
              /\ pc' = "read1"
  /\ UNCHANGED << addr2line_pid, exit_code >>
  /\ MainUnchanged

\* The child (addr2line -fe <image>) reads one address and writes the two
\* lines of its answer: the function name, then file:line.
Child_Answer ==
  /\ a2l.child = "alive"
  /\ a2l.in # <<>>
  /\ \E lf \in LineLengths, ll \in LineLengths :
       a2l' = [a2l EXCEPT
                 !.in = Tail(@),
                 !.out = @ \o << ResponseLine(Head(a2l.in), "function", lf),
                                 ResponseLine(Head(a2l.in), "location", ll) >>,
                 !.long = @ \/ lf > MAX_BUF - 1 \/ ll > MAX_BUF - 1]
  /\ UNCHANGED << addr2line_pid, pc, exit_code >>
  /\ MainUnchanged

\* The child ends (killed, or crashed on the image): what it had not read
\* is lost, what it had written stays in the pipe.
Child_Die ==
  /\ a2l.child = "alive"
  /\ a2l' = [a2l EXCEPT !.child = "dead", !.in = <<>>]
  /\ UNCHANGED << addr2line_pid, pc, exit_code >>
  /\ MainUnchanged

\* addr2line_get_lines, part_007:410-422: one of the two fgets.  It waits
\* while the pipe is empty and the child lives, returns NULL at end of file
\* (the function then returns NULL), and after the second one the function
\* returns what that fgets stored.
A2L_Read ==
  /\ pc \in {"read1", "read2"}
  /\ \E n \in {Len(a2l.calls)} :
       IF a2l.out # <<>>
       THEN /\ a2l' = [a2l EXCEPT
                         !.out = fgets_left(a2l.out),
                         !.calls[n].got = Append(@, fgets_taken(a2l.out)),
                         !.calls[n].result = IF pc = "read2" THEN "line" ELSE @]
            /\ pc' = IF pc = "read1" THEN "read2" ELSE "idle"
       ELSE /\ a2l.child = "dead"
            /\ a2l' = [a2l EXCEPT !.calls[n].result = "none"]
            /\ pc' = "idle"
  /\ UNCHANGED << addr2line_pid, exit_code >>
  /\ MainUnchanged

\* addr2line_cleanup (part_007:425-438): the child is killed and reaped and
\* both streams closed.
A2L_Cleanup ==
  /\ pc = "idle"
  /\ a2l' = [a2l EXCEPT !.child = "dead", !.in = <<>>, !.out = <<>>]
  /\ addr2line_pid' = -1
  /\ pc' = "done"
  /\ exit_code' = 0
  /\ MainUnchanged

NextA2L == A2L_Init \/ A2L_Query \/ Child_Answer \/ Child_Die \/ A2L_Read \/ A2L_Cleanup

SpecA2L == InitA2L /\ [][NextA2L]_vars

(***************************************************************************)
(* The library functions called on their own: insert_after and sort_list_m *)
(* of item_list.c, normalize_path and remove_subdir of the bridge          *)
(***************************************************************************)

\* Longest list handed to a library function, in items.
MaxItems == 3

n_eth == Str(<<"e", "t", "h">>)

\* The lists of up to MaxItems text symbols with names of two first bytes
\* at two addresses; the ids tell equal records apart.
LibRecords == { <<n, a>> : n \in {n_dax, n_dev, n_eth}, a \in {1, 2} }

LibLists ==
  { [i \in 1..Len(rs) |-> Item(i, rs[i][1], rs[i][2], Ord("t"), NULL)] :
      rs \in SeqsUpTo(LibRecords, MaxItems) }

\* Paths of up to three components, absolute or relative.
PathTokens == { Str(<<".", ".">>), Str(<<".">>), Str(<<"a">>), Str(<<"b">>) }

RECURSIVE JoinPath(_)
JoinPath(toks) ==
  IF Len(toks) = 0 THEN <<>>
  ELSE IF Len(toks) = 1 THEN toks[1]
  ELSE toks[1] \o <<Ord("/")>> \o JoinPath(Tail(toks))

LibPaths ==
  { lead \o JoinPath(toks) : lead \in {<<>>, <<Ord("/")>>}, toks \in SeqsUpTo(PathTokens, 3) }

\* Arguments of remove_subdir: a directory and paths that are below it,
\* equal to it, shorter than it, or elsewhere.
LibHomes == { ImageDir }

LibFiles ==
  { ImageDir, ImageDir \o Str(<<"/", "a">>), ImageDir \o Str(<<"x">>), Str(<<"/">>),
    Str(<<"/", "o", "/", "a">>), <<>> }

\* Everything but pc and call.
LibUnchanged ==
  UNCHANGED << cfg, fp, sym_name, list, tail, table, nalloc, need_2_process, iter,
               suffix_serial, duplicates, list_index, addr2line_pid, answers, out,
               exit_code, run, first_out, a2l, regex_failed >>

InitLib == Fresh(NoConfig, <<>>, 0)

\* insert_after (item_list.c:193-218) on a list sorted by name and indexed
\* by build_index; when malloc fails it returns 0 with the list as it was.
Lib_insert_after ==
  /\ pc = "start"
  /\ \E given \in LibLists, name \in {create_suffix(n_dev, 0), create_suffix(n_eth, 0)},
        search_addr \in {1, 2, 3}, malloc_ok \in BOOLEAN :
       \E l \in {sort_list_m(given, BY_NAME)} :
       \E r \in {insert_after(l, build_index(l), search_addr,
                              Item(Len(l) + 1, strncpy_terminated(name), search_addr,
                                   Ord("t"), NULL))} :
         call' = [fn |-> "insert_after", list |-> l, search_addr |-> search_addr,
                  ret |-> IF malloc_ok THEN r.ret ELSE 0,
                  result |-> IF malloc_ok THEN r.list ELSE l]
  /\ pc' = "called"
  /\ LibUnchanged

\* sort_list_m (item_list.c:185-191).
Lib_sort_list_m ==
  /\ pc = "start"
  /\ \E given \in LibLists, sort_by \in {BY_NAME, BY_ADDRESS} :
       call' = [fn |-> "sort_list_m", list |-> given, sort_by |-> sort_by,
                result |-> sort_list_m(given, sort_by)]
  /\ pc' = "called"
  /\ LibUnchanged

\* normalize_path (part_007:272-302).
Lib_normalize_path ==
  /\ pc = "start"
  /\ \E input_path \in LibPaths :
       call' = [fn |-> "normalize_path", path |-> input_path,
                result |-> normalize_path(input_path)]
  /\ pc' = "called"
  /\ LibUnchanged

\* remove_subdir (part_007:393-401).  When the two strings are equal the
\* loop compares their terminating NULs, finds them equal and goes on
\* comparing whatever follows the two strings in memory: it stops at some
\* i beyond strlen(home) and returns NULL, or the process dies first.
Lib_remove_subdir ==
  /\ pc = "start"
  /\ \E home \in LibHomes, f_path \in LibFiles :
       IF home = f_path
       THEN /\ call' = [fn |-> "remove_subdir", home |-> home, path |-> f_path,
                        overread |-> TRUE, result |-> NullStr]
            /\ pc' \in {"called", "crashed"}
       ELSE /\ call' = [fn |-> "remove_subdir", home |-> home, path |-> f_path,
                        overread |-> FALSE, result |-> remove_subdir(home, f_path)]
            /\ pc' = "called"
  /\ LibUnchanged

NextLib == Lib_insert_after \/ Lib_sort_list_m \/ Lib_normalize_path \/ Lib_remove_subdir

SpecLib == InitLib /\ [][NextLib]_vars

(***************************************************************************)
(* Properties                                                              *)
(***************************************************************************)

\* main has returned 0.
Finished == pc = "done" /\ exit_code = 0

\* The records of a text: its lines as <<address, type, name>>.
Records(lines) ==
  [i \in 1..Len(lines) |-> << HexVal(lines[i][1]), lines[i][2][1], lines[i][3] >>]

\* The items made by the alias pass, and the item each was made from.
AliasItems == {i \in 1..Len(list) : list[i].orig # NULL}
OriginalOf(i) == list[PosOf(list, list[i].orig)]

\* C1 (Superset): when the tool has finished, every record of the listing
\* it was given is in the output with the same address, type and name.
C1_Superset ==
  (Finished /\ run = 1) =>
     \A i \in 1..Len(cfg.nm_data) :
        \E j \in 1..Len(out) : Records(out)[j] = Records(cfg.nm_data)[i]

\* C2 (Idempotence): a second run, on the output of the first, in the same
\* configuration and with the same addr2line answers, writes exactly what
\* it read.
C2_Idempotence ==
  (Finished /\ run = 2) => out = first_out

\* Number of records read from the listing that carry the given name.
Occurrences(name) ==
  Cardinality({i \in 1..Len(list) : list[i].orig = NULL /\ list[i].symb_name = name})

\* C3 (Every occurrence aliased): when a sort-based run that made its alias
\* pass has finished, every record whose name occurs more than once, is not
\* vetoed by the filter and has a text type has exactly one alias made from
\* it.
C3_EveryOccurrenceAliased ==
  (Finished /\ need_2_process) =>
     \A i \in 1..Len(list) :
        ( /\ list[i].orig = NULL
          /\ Occurrences(list[i].symb_name) > 1
          /\ filter_symbols(list[i].symb_name, ignore_regex_S) = FNOMATCH
          /\ SYMB_IS_TEXT(list[i].stype) )
        => Cardinality({a \in AliasItems : list[a].orig = list[i].id}) = 1

\* C4 (Alias names unique): in the output of one run no alias has the name
\* of another record, alias or not.
C4_AliasNamesUnique ==
  (Finished /\ run = 1) =>
     \A a \in AliasItems : \A j \in 1..Len(list) :
        j # a => list[j].symb_name # list[a].symb_name

\* The two separators an alias name has behind the original name.
Separators == { <<Ord("@")>>, AliasInfix }

\* Whether s starts with prefix.
StartsWith(s, prefix) ==
  Len(prefix) <= Len(s) /\ SubSeq(s, 1, Len(prefix)) = prefix

\* C5 (Derived alias): every alias has the address and the type of the
\* record it was made from, and its name is that record's name, unchanged,
\* followed by a separator and a suffix.
C5_DerivedAlias ==
  \A a \in AliasItems :
     /\ list[a].addr = OriginalOf(a).addr
     /\ list[a].stype = OriginalOf(a).stype
     /\ \E sep \in Separators : StartsWith(list[a].symb_name, OriginalOf(a).symb_name \o sep)

\* The two marker substrings.
Markers == { MarkerFile, MarkerSerial }

\* C6 (Alias shape): for every output record whose name contains a marker
\* there is another output record with the same address and type whose
\* name is the part of that name before the marker.
C6_AliasShape ==
  (Finished /\ run = 1) =>
     \A j \in 1..Len(out) : \A m \in Markers :
        strstr(out[j][3], m) =>
           \E k \in (1..Len(out)) \ {j} :
              /\ Records(out)[k][1] = Records(out)[j][1]
              /\ Records(out)[k][2] = Records(out)[j][2]
              /\ out[k][3] = SubSeq(out[j][3], 1, StrPos(out[j][3], m) - 1)

\* C7 (Address order): the output of a run that was not short-circuited is
\* non-decreasing by address.
C7_AddressOrder ==
  (Finished /\ run = 1 /\ need_2_process) =>
     \A j \in 1..(Len(out) - 1) : Records(out)[j][1] <= Records(out)[j + 1][1]

\* The expressions part_000:19-24 write down, each string literal taken as
\* an expression of its own.
ListedPatterns ==
  { RePrefixIdent(Str(<<"_", "_", "c", "f", "i", "_">>)),
    RePrefixIdent(Str(<<"_", "_", "p", "f", "x", "_">>)),
    RePrefixIdent(Str(<<"l", "o", "c", "k", "_", "c", "l", "a", "s", "s">>)),
    RePrefixIdent(Str(<<"_", "_", "w", "k", "e", "y">>)),
    RePrefixIdent(Str(<<"_", "_", "m", "k", "e", "y">>)),
    RePrefixIdent(Str(<<"_", "_", "k", "e", "y">>)) }

\* C8 (Filter respect): no alias is made from a record whose name matches
\* one of the listed expressions.
C8_FilterRespect ==
  \A a \in AliasItems : \A re \in ListedPatterns : ~regexec(re, OriginalOf(a).symb_name)

\* C9 (Always-applied patterns): in every configuration no alias is made
\* from a record whose name matches ^__cfi_.*$ or ^__pfx_.*$.
C9_AlwaysApplied ==
  \A a \in AliasItems :
     /\ ~regexec(ignore_regex_cfi, OriginalOf(a).symb_name)
     /\ ~regexec(ignore_regex_pfx, OriginalOf(a).symb_name)

\* The type codes that may be aliased in a configuration.
TextTypes == { Ord("t"), Ord("T") }
DataTypes == { Ord("b"), Ord("B"), Ord("d"), Ord("D"), Ord("r"), Ord("R") }
AliasableTypes(alias_data) == IF alias_data THEN TextTypes \cup DataTypes ELSE TextTypes

\* C10 (Type respect): every alias, and the record it was made from, has a
\* type code of the aliasable set of the configuration: t and T always,
\* b, B, d, D, r and R only with alias data, no other code ever.
C10_TypeRespect ==
  \A a \in AliasItems :
     /\ list[a].stype \in AliasableTypes(cfg.alias_data)
     /\ OriginalOf(a).stype \in AliasableTypes(cfg.alias_data)

\* A finished run in which a record of a duplicated name got an alias and
\* another record of the same name, of a type that is not aliasable in the
\* configuration, got none.
C10_Witness ==
  /\ Finished
  /\ \E a \in AliasItems : \E i \in 1..Len(list) :
        /\ list[i].orig = NULL
        /\ list[i].symb_name = OriginalOf(a).symb_name
        /\ list[i].stype \notin AliasableTypes(cfg.alias_data)
        /\ \A b \in AliasItems : list[b].orig # list[i].id

\* The records read from the listing, in the order they were read: items
\* get their ids in the order of allocation and the alias pass starts after
\* the last record has been read.
IngestedRecords ==
  [k \in 1..Cardinality({i \in 1..Len(list) : list[i].orig = NULL}) |->
     FmtLine(list[PosOf(list, k)])]

\* C11 (Short-circuit leaves the store unchanged): when a name read from the
\* listing contains one of the two markers, the finished run has written
\* exactly the records it read, in the order it read them.
C11_ShortCircuitFrame ==
  (Finished /\ run = 1 /\ \E i \in 1..Len(list) : \E m \in Markers :
       list[i].orig = NULL /\ strstr(list[i].symb_name, m))
  => out = IngestedRecords

\* The same for the runs main itself short-circuits (kas_alias.c:178-181).
ShortCircuitedRunFrame ==
  (Finished /\ run = 1 /\ ~need_2_process) => out = IngestedRecords

\* Whether a line of the listing is a record: a hexadecimal address, one
\* type character and a name.
WellFormed(line) ==
  /\ Len(line[1]) > 0 /\ HexPrefixLen(line[1]) = Len(line[1])
  /\ Len(line[2]) = 1
  /\ Len(line[3]) > 0 /\ Len(line[3]) < MAX_NAME_SIZE

\* C12 (Malformed lines are skipped): when the run has finished, every line
\* of the listing that is a record is in the output, wherever the lines that
\* are no records stand, and a line that is no record has left nothing.
C12_MalformedSkipped ==
  (Finished /\ run = 1) =>
     /\ \A i \in 1..Len(cfg.nm_data) :
           WellFormed(cfg.nm_data[i]) =>
              \E j \in 1..Len(out) : out[j] = cfg.nm_data[i]
     /\ \A k \in 1..Len(list) :
           list[k].orig = NULL =>
              \E i \in 1..Len(cfg.nm_data) :
                 WellFormed(cfg.nm_data[i]) /\ FmtLine(list[k]) = cfg.nm_data[i]

\* Whether an alias name is the serial form of the name it was made from:
\* "<name>__alias__<S>".
SerialForm(a) ==
  \E n \in 0..nalloc :
     list[a].symb_name = OriginalOf(a).symb_name \o AliasInfix \o DecOf(n)

\* Whether an answer of the child gives no place below the image directory:
\* nothing could be read, the location is unknown, or the path does not
\* start with the image directory.
NoLocation(ans) ==
  \/ ans.eof
  \/ ans.line = loc_unk
  \/ ~StartsWith(ans.line, cfg.vmlinux_path)

\* C13 (Per-address fallback): the run is never ended by a query that gave
\* no location; the alias of a record whose query gave none has the serial
\* form, and the alias of a record whose query gave a place below the image
\* directory has the file-based form, whatever the queries before it gave.
C13_PerAddressFallback ==
  /\ pc # "crashed"
  /\ \A a \in AliasItems :
        IF NoLocation(answers[list[a].addr])
        THEN SerialForm(a)
        ELSE ~SerialForm(a) /\ strstr(list[a].symb_name, <<Ord("@")>>)

\* The serial in the name of a serial-form alias.
SerialOf(a) ==
  CHOOSE n \in 0..nalloc :
     list[a].symb_name = OriginalOf(a).symb_name \o AliasInfix \o DecOf(n)

\* The serial-form aliases made so far.
SerialAliases == {a \in AliasItems : SerialForm(a)}

\* C14 (Serial monotonicity): within a run the serial-form aliases carry the
\* serials 0, 1, 2, ... in the order they were made: the one made after k
\* others has serial k, so each serial is greater than all used before it
\* and none is used twice.
C14_SerialMonotonic ==
  run = 1 =>
     \A a \in SerialAliases :
        SerialOf(a) = Cardinality({b \in SerialAliases : list[b].id < list[a].id})

\* A finished run that made two serial-form aliases.
C14_Witness ==
  /\ Finished
  /\ \E a, b \in SerialAliases : SerialOf(a) = 0 /\ SerialOf(b) = 1

\* The bytes a file-based alias name may hold: [A-Za-z0-9@_].
AliasBytes == {b \in 1..255 : isalnum(b)} \cup {Ord("@"), Ord("_")}

\* "<name>@<relpath>" for an alias: the name it was made from, '@', and the
\* normalised location the child gave for its address with the image
\* directory removed.
RawAliasName(a) ==
  OriginalOf(a).symb_name \o <<Ord("@")>> \o
     remove_subdir(cfg.vmlinux_path,
                   addr2line_get_lines(answers[list[a].addr].line).s).s

C16_InitFailureContinues ==
  [][(pc = "start" /\ addr2line_pid' = -1) =>
        (pc' = "scan" /\ exit_code' = exit_code)]_vars

\* C17 (Release on all exit paths): whenever main has returned, the
\* addr2line child has been killed and reaped by addr2line_cleanup, which
\* leaves addr2line_pid at -1.
C17_ReleasedOnExit == pc = "done" => addr2line_pid = -1

\* C18 (Regex failure is fatal): the step in which filter_symbols reports an
\* error for a candidate, of whatever type, ends the run with exit code 1 and
\* adds no item to the list.
C18_RegexFailureFatal ==
  [][(~regex_failed /\ regex_failed') =>
        (pc' = "done" /\ exit_code' = 1 /\ list' = list)]_vars

\* The calls of addr2line_get_lines that returned a line.
AnsweredCalls == {i \in 1..Len(a2l.calls) : a2l.calls[i].result = "line"}

\* What call i read is the answer to its own address: the whole function
\* line, then the whole location line, which is what it returned.
OwnAnswer(i) ==
  LET c == a2l.calls[i]
  IN  /\ Len(c.got) = 2
      /\ \A k \in 1..2 : c.got[k].address = c.address /\ c.got[k].off = 0 /\ c.got[k].nl
      /\ c.got[1].part = "function"
      /\ c.got[2].part = "location"

\* C19 (Request/response correlation): every call that returned a line read
\* exactly the two lines the child wrote for its address, and returned the
\* location line of that address; between two calls nothing is left in the
\* pipe from the child.
C19_Correlation ==
  /\ \A i \in AnsweredCalls : OwnAnswer(i)
  /\ (pc = "idle" /\ a2l.calls # <<>> /\ Last(a2l.calls).result = "line") => a2l.out = <<>>

\* The same for the sessions in which every line the child wrote fits the
\* buffer.
CorrelationOfShortLines == ~a2l.long => C19_Correlation

\* The calls that returned NULL: the child was gone and the pipe empty.
FailedCalls == {i \in 1..Len(a2l.calls) : a2l.calls[i].result = "none"}

\* C20 (Sticky child death): once a call has returned none because the
\* child is dead, the process does not die in a later call, and every later
\* call that has returned has returned none.
C20_StickyChildDeath ==
  \A i \in FailedCalls :
     /\ pc # "crashed"
     /\ \A j \in (i + 1)..Len(a2l.calls) : a2l.calls[j].result \in {"running", "none"}

\* The answers of the child so far that are a second line, not end of file.
AnsweredAddresses == {a \in DOMAIN answers : ~answers[a].eof}

\* C21 (Query result for unknown locations): for a second response line
\* "??:0" addr2line_get_lines returns none, and for any other second line it
\* returns a path.
C21_UnknownIsNone ==
  \A a \in AnsweredAddresses :
     addr2line_get_lines(answers[a].line).null <=> (answers[a].line = loc_unk)

\* C22 (Alias placement): in the step that inserts an alias, the alias
\* becomes the immediate successor of the record it was derived from.
C22_AliasPlacement ==
  [][\A i \in 1..Len(list') :
        (list'[i].orig # NULL /\ PosOf(list, list'[i].id) = 0)
           => (i > 1 /\ list'[i - 1].id = list'[i].orig)]_vars

\* C23 (InsertAfter result): insert_after returns 0 exactly when no record
\* of the list has the address searched for; then the list is as it was,
\* and otherwise it is one record longer.
C23_InsertAfterResult ==
  call.fn = "insert_after" =>
     /\ (call.ret = 0) <=> ~(\E i \in 1..Len(call.list) : call.list[i].addr = call.search_addr)
     /\ call.ret = 0 => call.result = call.list
     /\ call.ret # 0 => Len(call.result) = Len(call.list) + 1

\* The key of an item compares not greater than the key of another.
KeyLeq(x, y, sort_by) ==
  IF sort_by = BY_NAME THEN strcmp(x.symb_name, y.symb_name) <= 0 ELSE x.addr <= y.addr

\* C26 (Sort is a stable sort): sort_list_m returns the records of its
\* input, each once, in non-decreasing order of the key, records with equal
\* keys in the order they had before.
C26_StableSort ==
  call.fn = "sort_list_m" =>
     /\ Len(call.result) = Len(call.list)
     /\ \A i \in 1..Len(call.list) :
           Cardinality({j \in 1..Len(call.result) : call.result[j] = call.list[i]}) = 1
     /\ \A i \in 1..Len(call.result), j \in 1..Len(call.result) :
           i < j =>
             /\ KeyLeq(call.result[i], call.result[j], call.sort_by)
             /\ KeyLeq(call.result[j], call.result[i], call.sort_by)
                   => call.result[i].id < call.result[j].id

\* A call that sorted a list of three records, two of them with the same
\* key, into another order.
C26_Witness ==
  /\ call.fn = "sort_list_m"
  /\ Len(call.list) = 3
  /\ call.result # call.list
  /\ \E i \in 1..3, j \in 1..3 :
        /\ i < j
        /\ KeyLeq(call.list[i], call.list[j], call.sort_by)
        /\ KeyLeq(call.list[j], call.list[i], call.sort_by)

\* The buffer the claim describes for tokens toks[k..] and the buffer built
\* so far: ".." removes the last "/<component>" of a buffer that is not
\* empty, "." is skipped, any other token is appended behind a '/'.
RECURSIVE ClaimedBuffer(_, _, _)
ClaimedBuffer(toks, k, buffer) ==
  IF k > Len(toks) THEN buffer
  ELSE IF toks[k] = Str(<<".", ".">>) /\ buffer # <<>>
       THEN ClaimedBuffer(toks, k + 1, SubSeq(buffer, 1, LastSlash(buffer) - 1))
       ELSE IF toks[k] = Str(<<".">>)
       THEN ClaimedBuffer(toks, k + 1, buffer)
       ELSE ClaimedBuffer(toks, k + 1, buffer \o <<Ord("/")>> \o toks[k])

\* C27 (Path normalization): for a path that is not empty normalize_path
\* returns what the tokens give when processed left to right from an empty
\* buffer: ".." with a non-empty buffer removes its last component, "." is
\* skipped, every other token, ".." with an empty buffer included, is
\* appended.
C27_PathNormalization ==
  (call.fn = "normalize_path" /\ call.path # <<>>) =>
     call.result = SomeStr(ClaimedBuffer(strtok_all(call.path), 1, <<>>))

\* path begins with all bytes of root.
BeginsWith(path, root) ==
  Len(path) >= Len(root) /\ SubSeq(path, 1, Len(root)) = root

\* C28 (Relative rebase): remove_subdir returns the rest of path after root
\* exactly when path begins with all bytes of root, none otherwise, the
\* process lives on, and no byte behind the end of either string is read.
C28_RelativeRebase ==
  call.fn = "remove_subdir" =>
     /\ pc # "crashed"
     /\ ~call.overread
     /\ call.result = IF BeginsWith(call.path, call.home)
                      THEN SomeStr(SubSeq(call.path, Len(call.home) + 1, Len(call.path)))
                      ELSE NullStr

\* C24 (Multiplicity index consistency): for every name in the list, the
\* count item_counter finds for it is the number of records of the list
\* with that name.
C24_IndexConsistent ==
  \A i \in 1..Len(list) :
     item_counter(table, strncpy(list[i].symb_name)) =
        Cardinality({j \in 1..Len(list) : list[j].symb_name = list[i].symb_name})

\* Names no listing of the hash-indexed runs holds, and one they hold.
ProbeNames == { n_eth, n_dax, n_dev }

\* C25 (Multiplicity of an unknown name): for a name no record read from
\* the listing has, item_counter returns 0.
C25_UnknownIsZero ==
  \A n \in ProbeNames :
     (\A i \in 1..Len(list) : list[i].symb_name # n) =>
        item_counter(table, strncpy(n)) = 0

\* C29 (Tail pointer invariant): h->tail is the last record reachable from
\* h->head.
C29_TailIsLast == list # <<>> => tail = Last(list).id

\* C30 (No alias of an alias): every alias was made from a record read from
\* the listing, never from a record the alias pass inserted.
C30_NoAliasOfAlias == \A a \in AliasItems : OriginalOf(a).orig = NULL
====
